---------------------------- MODULE Spec2Model ----------------------------
(***************************************************************************)
(* A model of the passphrase-based envelope codec of crypto.ts             *)
(* (makeCryptoWith and the four operations of the codec it returns).       *)
(*                                                                         *)
(* JavaScript values are tagged tuples: <<"undefined">>, <<"null">>,       *)
(* <<"boolean", b>>, <<"number", n>>, <<"nan">>, <<"string", chars>>,      *)
(* <<"array", elems>>, <<"object", <<key, value>> pairs>>, <<"function">>, *)
(* <<"symbol">>, <<"buffer", bytes>>; <<"cycle">> stands for a reference   *)
(* back to an enclosing array or object. A character is its code point.   *)
(*                                                                         *)
(* A byte is a tagged tuple as well. <<"b", n>> is the byte n. The bytes   *)
(* the cipher library returns are terms over its inputs (an ideal cipher:  *)
(* two outputs are equal exactly when they were computed from equal        *)
(* inputs): <<"x", keystream, p>> is plaintext byte p under a keystream    *)
(* position, <<"t", j, mac>> is byte j of an authentication tag, and       *)
(* <<"f", d, c>> is byte c with the non-zero difference d xor-ed in.       *)
(***************************************************************************)
EXTENDS Integers, Sequences, FiniteSets, TLC

(* ---------------- the module's constants (crypto.ts) ------------------- *)
IV_LENGTH_IN_BYTES == 12
SALT_LENGTH_IN_BYTES == 64
KEY_LENGTH_IN_BYTES == 32
KEY_ITERATIONS == 10000
KEY_DIGEST == "sha512"
CIPHER_ALGORITHM == "aes-256-gcm"
ENCRYPTION_RESULT_ENCODING == "base64"
\* "Auth tag is always 16 bytes long": the literal 16 of decrypt's slices.
AUTH_TAG_LENGTH == 16

(* ------------------------- JavaScript values --------------------------- *)
Undefined == <<"undefined">>
Null == <<"null">>
Str(s) == <<"string", s>>
Num(n) == <<"number", n>>
Bool(b) == <<"boolean", b>>
Arr(xs) == <<"array", xs>>
Obj(kvs) == <<"object", kvs>>
Buf(bs) == <<"buffer", bs>>
Throw(msg) == <<"throw", msg>>
Return(v) == <<"return", v>>

B(n) == <<"b", n>>

\* The sequence f with every element evaluated (TLC evaluates an element of
\* [i \in S |-> e] anew at each use otherwise).
Eval(f) == f \o <<>>

(* ------------------------- JSON.stringify ------------------------------ *)
RECURSIVE Digits(_)
Digits(n) ==
    IF n < 10 THEN <<48 + n>> ELSE Digits(n \div 10) \o <<48 + (n % 10)>>

NumberToString(n) == IF n < 0 THEN <<45>> \o Digits(-n) ELSE Digits(n)

RECURSIVE EscapeChars(_)
EscapeChars(s) ==
    IF Len(s) = 0 THEN <<>>
    ELSE (IF Head(s) \in {34, 92} THEN <<92, Head(s)>> ELSE <<Head(s)>>)
         \o EscapeChars(Tail(s))

QuoteJSONString(s) == <<34>> \o EscapeChars(s) \o <<34>>

RECURSIVE JoinPieces(_)
JoinPieces(ps) ==
    IF Len(ps) = 0 THEN <<>>
    ELSE IF Len(ps) = 1 THEN ps[1]
    ELSE ps[1] \o <<44>> \o JoinPieces(Tail(ps))

\* The text of the literal null, true, false.
LitNull == <<110, 117, 108, 108>>
LitTrue == <<116, 114, 117, 101>>
LitFalse == <<102, 97, 108, 115, 101>>

\* JSON.stringify's SerializeJSONProperty: Str(text), Undefined when the
\* value has no JSON text, or a Throw for a circular structure.
RECURSIVE SerializeJSONProperty(_)
RECURSIVE ElementPieces(_)
RECURSIVE MemberPieces(_)
ElementPieces(xs) ==
    IF Len(xs) = 0 THEN <<"pieces", <<>>>>
    ELSE LET h == SerializeJSONProperty(Head(xs))
             rest == ElementPieces(Tail(xs))
         IN  IF h[1] = "throw" THEN h
             ELSE IF rest[1] = "throw" THEN rest
             ELSE <<"pieces",
                    <<IF h[1] = "undefined" THEN LitNull ELSE h[2]>> \o rest[2]>>

MemberPieces(kvs) ==
    IF Len(kvs) = 0 THEN <<"pieces", <<>>>>
    ELSE LET k == Head(kvs)[1]
             h == SerializeJSONProperty(Head(kvs)[2])
             rest == MemberPieces(Tail(kvs))
         IN  IF h[1] = "throw" THEN h
             ELSE IF rest[1] = "throw" THEN rest
             ELSE IF h[1] = "undefined" THEN rest
             ELSE <<"pieces",
                    <<QuoteJSONString(k) \o <<58>> \o h[2]>> \o rest[2]>>

SerializeJSONProperty(v) ==
    CASE v[1] = "string" -> Str(QuoteJSONString(v[2]))
      [] v[1] = "number" -> Str(NumberToString(v[2]))
      [] v[1] = "nan" -> Str(LitNull)
      [] v[1] = "null" -> Str(LitNull)
      [] v[1] = "boolean" -> Str(IF v[2] THEN LitTrue ELSE LitFalse)
      [] v[1] = "array" ->
            LET ps == ElementPieces(v[2])
            IN  IF ps[1] = "throw" THEN ps
                ELSE Str(<<91>> \o JoinPieces(ps[2]) \o <<93>>)
      [] v[1] = "object" ->
            LET ps == MemberPieces(v[2])
            IN  IF ps[1] = "throw" THEN ps
                ELSE Str(<<123>> \o JoinPieces(ps[2]) \o <<125>>)
      [] v[1] = "cycle" -> Throw("Converting circular structure to JSON")
      [] OTHER -> Undefined

JSON_stringify(v) == SerializeJSONProperty(v)

(* --------------------------- JSON.parse -------------------------------- *)
Fail == <<"fail">>
Ok(v, next) == <<"ok", v, next>>

HasPrefix(s, i, lit) ==
    /\ i + Len(lit) - 1 <= Len(s)
    /\ SubSeq(s, i, i + Len(lit) - 1) = lit

RECURSIVE ScanString(_, _, _)
ScanString(s, i, acc) ==
    IF i > Len(s) THEN Fail
    ELSE IF s[i] = 34 THEN Ok(Str(acc), i + 1)
    ELSE IF s[i] = 92
         THEN IF i + 1 <= Len(s) /\ s[i + 1] \in {34, 92}
              THEN ScanString(s, i + 2, Append(acc, s[i + 1]))
              ELSE Fail
    ELSE IF s[i] < 32 THEN Fail
    ELSE ScanString(s, i + 1, Append(acc, s[i]))

IsDigit(c) == c >= 48 /\ c <= 57

RECURSIVE ScanDigits(_, _, _)
ScanDigits(s, i, acc) ==
    IF i <= Len(s) /\ IsDigit(s[i])
    THEN ScanDigits(s, i + 1, 10 * acc + (s[i] - 48))
    ELSE <<acc, i>>

ScanNatural(s, i) ==
    IF i > Len(s) \/ ~IsDigit(s[i]) THEN Fail
    ELSE IF s[i] = 48 THEN Ok(Num(0), i + 1)
    ELSE LET r == ScanDigits(s, i, 0) IN Ok(Num(r[1]), r[2])

ScanNumber(s, i) ==
    IF s[i] = 45
    THEN LET r == ScanNatural(s, i + 1)
         IN  IF r[1] = "fail" THEN Fail ELSE Ok(Num(-(r[2][2])), r[3])
    ELSE ScanNatural(s, i)

RECURSIVE ParseValue(_, _)
RECURSIVE ParseElements(_, _, _)
RECURSIVE ParseMembers(_, _, _)
ParseElements(s, i, acc) ==
    LET r == ParseValue(s, i)
    IN  IF r[1] = "fail" THEN Fail
        ELSE IF r[3] > Len(s) THEN Fail
        ELSE IF s[r[3]] = 44 THEN ParseElements(s, r[3] + 1, Append(acc, r[2]))
        ELSE IF s[r[3]] = 93 THEN Ok(Arr(Append(acc, r[2])), r[3] + 1)
        ELSE Fail

ParseMembers(s, i, acc) ==
    IF i > Len(s) \/ s[i] # 34 THEN Fail
    ELSE LET k == ScanString(s, i + 1, <<>>)
         IN  IF k[1] = "fail" THEN Fail
             ELSE IF k[3] > Len(s) \/ s[k[3]] # 58 THEN Fail
             ELSE LET r == ParseValue(s, k[3] + 1)
                      kv == <<k[2][2], r[2]>>
                  IN  IF r[1] = "fail" THEN Fail
                      ELSE IF r[3] > Len(s) THEN Fail
                      ELSE IF s[r[3]] = 44
                           THEN ParseMembers(s, r[3] + 1, Append(acc, kv))
                      ELSE IF s[r[3]] = 125
                           THEN Ok(Obj(Append(acc, kv)), r[3] + 1)
                      ELSE Fail

ParseValue(s, i) ==
    IF i > Len(s) THEN Fail
    ELSE IF s[i] = 34 THEN ScanString(s, i + 1, <<>>)
    ELSE IF s[i] = 45 \/ IsDigit(s[i]) THEN ScanNumber(s, i)
    ELSE IF HasPrefix(s, i, LitNull) THEN Ok(Null, i + 4)
    ELSE IF HasPrefix(s, i, LitTrue) THEN Ok(Bool(TRUE), i + 4)
    ELSE IF HasPrefix(s, i, LitFalse) THEN Ok(Bool(FALSE), i + 5)
    ELSE IF s[i] = 91
         THEN IF i + 1 <= Len(s) /\ s[i + 1] = 93 THEN Ok(Arr(<<>>), i + 2)
              ELSE ParseElements(s, i + 1, <<>>)
    ELSE IF s[i] = 123
         THEN IF i + 1 <= Len(s) /\ s[i + 1] = 125 THEN Ok(Obj(<<>>), i + 2)
              ELSE ParseMembers(s, i + 1, <<>>)
    ELSE Fail

JSON_parse(text) ==
    LET r == ParseValue(text, 1)
    IN  IF r[1] = "ok" /\ r[3] = Len(text) + 1 THEN Return(r[2])
        ELSE Throw("Unexpected token in JSON")

(* ------------------------------ UTF-8 ---------------------------------- *)
\* Buffer.from(str, 'utf8') and cipher.update(str, 'utf8').
RECURSIVE Utf8Encode(_)
Utf8Encode(s) ==
    IF Len(s) = 0 THEN <<>>
    ELSE LET cp == Head(s)
         IN  (IF cp < 128 THEN <<B(cp)>>
              ELSE IF cp < 2048
                   THEN <<B(192 + (cp \div 64)), B(128 + (cp % 64))>>
              ELSE <<B(224 + (cp \div 4096)), B(128 + ((cp \div 64) % 64)),
                     B(128 + (cp % 64))>>)
             \o Utf8Encode(Tail(s))

IsPlain(b) == b[1] = "b"
IsCont(b) == IsPlain(b) /\ b[2] >= 128 /\ b[2] < 192

\* update(text, undefined, 'utf8') + final('utf8'): a byte that starts no
\* well-formed sequence decodes to U+FFFD.
RECURSIVE Utf8Decode(_)
Utf8Decode(bs) ==
    IF Len(bs) = 0 THEN <<>>
    ELSE LET b == Head(bs)
         IN  IF ~IsPlain(b) THEN <<65533>> \o Utf8Decode(Tail(bs))
             ELSE IF b[2] < 128 THEN <<b[2]>> \o Utf8Decode(Tail(bs))
             ELSE IF b[2] >= 194 /\ b[2] < 224 /\ Len(bs) >= 2 /\ IsCont(bs[2])
                  THEN <<(b[2] - 192) * 64 + (bs[2][2] - 128)>>
                       \o Utf8Decode(SubSeq(bs, 3, Len(bs)))
             ELSE IF b[2] >= 224 /\ b[2] < 240 /\ Len(bs) >= 3
                     /\ IsCont(bs[2]) /\ IsCont(bs[3])
                     /\ (b[2] - 224) * 4096 + (bs[2][2] - 128) * 64 >= 2048
                  THEN <<(b[2] - 224) * 4096 + (bs[2][2] - 128) * 64
                         + (bs[3][2] - 128)>>
                       \o Utf8Decode(SubSeq(bs, 4, Len(bs)))
             ELSE <<65533>> \o Utf8Decode(Tail(bs))

(* ------------------------------ base64 --------------------------------- *)
\* A base64 character carries six bits: <<"s1", a>> the high six of a,
\* <<"s2", a, b>> the low two of a and the high four of b, <<"s3", b, c>>
\* the low four of b and the high two of c, <<"s4", c>> the low six of c.
\* A byte missing from the last group contributes zero bits (ZeroBits).
ZeroBits == <<"zero">>
PadChar == <<"=">>

\* buffer.toString('base64'): character k of the text. Bytes 3g+1..3g+3
\* give characters 4g+1..4g+4; a last group of one or two bytes is padded.
Base64Char(bs, k) ==
    LET g == (k - 1) \div 4
        r == (k - 1) % 4
        At(i) == IF 3 * g + i <= Len(bs) THEN bs[3 * g + i] ELSE ZeroBits
    IN  IF r = 0 THEN <<"s1", At(1)>>
        ELSE IF r = 1 THEN <<"s2", At(1), At(2)>>
        ELSE IF r = 2
             THEN IF 3 * g + 2 <= Len(bs) THEN <<"s3", At(2), At(3)>> ELSE PadChar
        ELSE IF 3 * g + 3 <= Len(bs) THEN <<"s4", At(3)>> ELSE PadChar

Base64Encode(bs) ==
    Eval([k \in 1..(4 * ((Len(bs) + 2) \div 3)) |-> Base64Char(bs, k)])

\* The byte two neighbouring characters decode to: the byte both were cut
\* from, or else some other byte.
JoinBits(hi, lo) ==
    LET src == IF hi[1] = "s1" THEN hi[2] ELSE hi[3]
    IN  IF \/ hi[1] = "s1" /\ lo[1] = "s2" /\ lo[2] = src
           \/ hi[1] = "s2" /\ lo[1] = "s3" /\ lo[2] = src
           \/ hi[1] = "s3" /\ lo[1] = "s4" /\ lo[2] = src
        THEN src
        ELSE <<"j", hi, lo>>

\* The number of characters before the first padding character.
DataLen(cs) ==
    LET pads == {i \in 1..Len(cs) : cs[i] = PadChar}
    IN  IF pads = {} THEN Len(cs)
        ELSE (CHOOSE i \in pads : \A h \in pads : i <= h) - 1

\* Buffer.from(text, 'base64'): decoding stops at the first padding
\* character; four characters give three bytes, a rest of two or three
\* characters gives one or two.
Base64Decode(cs) ==
    LET n == DataLen(cs)
        rest == n % 4
        len == 3 * (n \div 4) + (IF rest >= 2 THEN rest - 1 ELSE 0)
    IN  Eval([k \in 1..len |->
                LET i == 4 * ((k - 1) \div 3) + ((k - 1) % 3) + 1
                IN  JoinBits(cs[i], cs[i + 1])])

(* ----------------------- the cipher library ---------------------------- *)
IsNullish(v) == v[1] \in {"undefined", "null"}

\* A BinaryLike password: the UTF-8 bytes of a string, or a Buffer's bytes.
PasswordBytes(k) == IF k[1] = "string" THEN Utf8Encode(k[2]) ELSE k[2]

\* A short name of a byte sequence inside a term: its length and the bytes
\* at which a run of equal bytes starts. Two sequences have the same name
\* exactly when they are equal.
Digest(seq) ==
    <<Len(seq),
      {<<i, seq[i]>> : i \in {h \in 1..Len(seq) :
                                IF h = 1 THEN TRUE ELSE seq[h] # seq[h - 1]}}>>

\* crypto.pbkdf2 / crypto.pbkdf2Sync: the derived key, keylen bytes long.
pbkdf2(password, salt, iterations, keylen, digest) ==
    <<"key", PasswordBytes(password), Digest(salt), iterations, keylen, digest>>

\* Counter mode: byte i of the text is xor-ed with byte i of the keystream,
\* so that applying the same keystream twice gives the byte back.
Keystream(key, iv, i) == <<"ks", key, Digest(iv), i>>

RECURSIVE XorKeystream(_, _)
XorKeystream(ks, c) ==
    IF c[1] = "x" /\ c[2] = ks THEN c[3]
    ELSE IF c[1] = "f" THEN <<"f", c[2], XorKeystream(ks, c[3])>>
    ELSE <<"x", ks, c>>

\* cipher.update(...) ++ cipher.final() and decipher.update(...)
CtrCrypt(key, iv, text) ==
    Eval([i \in 1..Len(text) |-> XorKeystream(Keystream(key, iv, i), text[i])])

\* cipher.getAuthTag(): the tag over key, nonce, AAD and ciphertext. The term
\* names the ciphertext by what it is under the keystream of key and nonce,
\* which determines it.
GcmTag(key, iv, aadBytes, ciphertext) ==
    LET under == CtrCrypt(key, iv, ciphertext)
    IN  Eval([j \in 1..AUTH_TAG_LENGTH |->
                <<"t", j, key, Digest(iv), aadBytes, under>>])

\* The tag lengths setAuthTag accepts for GCM.
ValidTagLengths == {4, 8, 12, 13, 14, 15, 16}

\* buf.slice(start, end)
Min(a, b) == IF a < b THEN a ELSE b
Slice(buf, start, end) == SubSeq(buf, Min(start, Len(buf)) + 1, Min(end, Len(buf)))

(* --------------------------- crypto.ts --------------------------------- *)
\* !encryptionKey
Falsy(v) ==
    CASE v[1] \in {"undefined", "null", "nan"} -> TRUE
      [] v[1] = "string" -> Len(v[2]) = 0
      [] v[1] = "number" -> v[2] = 0
      [] v[1] = "boolean" -> ~v[2]
      [] OTHER -> FALSE

_validateOpts(opts) ==
    IF Falsy(opts.encryptionKey) THEN Throw("encryptionKey is required")
    ELSE Return(Undefined)

_validateAAD_noEmpty(aad) ==
    IF IsNullish(aad) THEN Return(Undefined)
    ELSE IF aad[1] # "string" THEN Throw("AAD must be a string")
    ELSE Return(Undefined)

_validateAAD(aad) ==
    IF IsNullish(aad) THEN Return(Undefined)
    ELSE IF aad[1] # "string" THEN Throw("AAD must be a string")
    ELSE IF Len(aad[2]) = 0 THEN Throw("AAD cannot be an empty string")
    ELSE Return(Undefined)

\* crypto.randomBytes(n): the next n bytes of the random source.
randomBytes(rand, used, n) == SubSeq(rand, used + 1, used + n)

_generateSalt(rand, used) == randomBytes(rand, used, SALT_LENGTH_IN_BYTES)

_generateIV(rand, used) == randomBytes(rand, used, IV_LENGTH_IN_BYTES)

_generateKeySync(encryptionKey, salt) ==
    pbkdf2(encryptionKey, salt, KEY_ITERATIONS, KEY_LENGTH_IN_BYTES, KEY_DIGEST)

\* The key the callback of crypto.pbkdf2 resolves the promise with.
_generateKey(encryptionKey, salt) ==
    pbkdf2(encryptionKey, salt, KEY_ITERATIONS, KEY_LENGTH_IN_BYTES, KEY_DIGEST)

_serialize(serializable) ==
    LET serializedObj == JSON_stringify(serializable)
    IN  IF serializedObj[1] = "throw" THEN serializedObj
        ELSE IF serializedObj = Undefined
             THEN Throw("Object to be encrypted must be serializable")
        ELSE Return(serializedObj)

AadBytes_unbound(aad) == <<>>

AadBytes(aad) == IF IsNullish(aad) THEN <<>> ELSE Utf8Encode(aad[2])

Pack_tagLast(salt, iv, tag, encrypted) == salt \o iv \o encrypted \o tag

Pack_ivFirst(salt, iv, tag, encrypted) == iv \o salt \o tag \o encrypted

\* The envelope bytes: Buffer.concat([salt, iv, tag, encrypted]).
Pack(salt, iv, tag, encrypted) == salt \o iv \o tag \o encrypted

encrypt(serializedInput, iv, key, salt, aad) ==
    LET encrypted == CtrCrypt(key, iv, Utf8Encode(serializedInput))
        tag == GcmTag(key, iv, AadBytes(aad), encrypted)
    IN  Str(Base64Encode(Pack(salt, iv, tag, encrypted)))

AuthTagMatches_short(key, iv, aad, text, tag) ==
    SubSeq(tag, 1, Len(tag) - 1)
        = SubSeq(GcmTag(key, iv, AadBytes(aad), text), 1, Len(tag) - 1)

\* decipher.final(): whether the tag set by setAuthTag is the tag of the text.
AuthTagMatches(key, iv, aad, text, tag) ==
    tag = SubSeq(GcmTag(key, iv, AadBytes(aad), text), 1, Len(tag))

decrypt_noFinal(key, outputBytes, aad) ==
    LET iv == Slice(outputBytes, SALT_LENGTH_IN_BYTES,
                    SALT_LENGTH_IN_BYTES + IV_LENGTH_IN_BYTES)
        tag == Slice(outputBytes, SALT_LENGTH_IN_BYTES + IV_LENGTH_IN_BYTES,
                     SALT_LENGTH_IN_BYTES + IV_LENGTH_IN_BYTES + AUTH_TAG_LENGTH)
        text == Slice(outputBytes,
                      SALT_LENGTH_IN_BYTES + IV_LENGTH_IN_BYTES + AUTH_TAG_LENGTH,
                      Len(outputBytes))
    IN  IF Len(iv) = 0 THEN Throw("Invalid initialization vector")
        ELSE IF Len(tag) \notin ValidTagLengths
             THEN Throw("Invalid authentication tag length")
        ELSE JSON_parse(Utf8Decode(CtrCrypt(key, iv, text)))

decrypt(key, outputBytes, aad) ==
    LET iv == Slice(outputBytes, SALT_LENGTH_IN_BYTES,
                    SALT_LENGTH_IN_BYTES + IV_LENGTH_IN_BYTES)
        tag == Slice(outputBytes, SALT_LENGTH_IN_BYTES + IV_LENGTH_IN_BYTES,
                     SALT_LENGTH_IN_BYTES + IV_LENGTH_IN_BYTES + AUTH_TAG_LENGTH)
        text == Slice(outputBytes,
                      SALT_LENGTH_IN_BYTES + IV_LENGTH_IN_BYTES + AUTH_TAG_LENGTH,
                      Len(outputBytes))
        decrypted == Utf8Decode(CtrCrypt(key, iv, text))
    IN  IF Len(iv) = 0 THEN Throw("Invalid initialization vector")
        ELSE IF Len(tag) \notin ValidTagLengths
             THEN Throw("Invalid authentication tag length")
        ELSE IF ~AuthTagMatches(key, iv, aad, text, tag)
             THEN Throw("Unsupported state or unable to authenticate data")
        ELSE JSON_parse(decrypted)

asBuffer(encryptedOutput) ==
    IF encryptedOutput[1] = "buffer" THEN encryptedOutput[2]
    ELSE Base64Decode(encryptedOutput[2])

(* --------------------------- the state --------------------------------- *)
VARIABLES
    codec,   \* the encryptionKey the caller's codec closes over, or NoVal
    made,    \* the last makeCryptoWith(opts): its opts and its outcome
    calls    \* the calls made on codecs: inputs, locals, position, outcome

vars == <<codec, made, calls>>

NoVal == <<"none">>

CallIds == {1, 2}

\* A call that was never made. rand is the random source's bytes to come when
\* the call starts and used counts the bytes the call drew; trace lists the
\* steps the call has run. from (decrypt only) records which call's result
\* the encryptedOutput was made of, and how.
Idle ==
    [op |-> "idle", pc |-> "idle", encryptionKey |-> NoVal, input |-> NoVal,
     aad |-> NoVal, rand |-> <<>>, used |-> 0, trace |-> <<>>,
     salt |-> <<>>, iv |-> <<>>, serializedInput |-> <<>>,
     outputBytes |-> <<>>, key |-> NoVal, result |-> NoVal, from |-> NoVal]

Init ==
    /\ codec = NoVal
    /\ made = [opts |-> NoVal, result |-> NoVal]
    /\ calls = [c \in CallIds |-> Idle]

\* Call c can be made: a codec was constructed and c was not made yet.
Startable(c) ==
    /\ codec # NoVal
    /\ calls[c].pc = "idle"

Done(call, outcome) == [call EXCEPT !.pc = "done", !.result = outcome]
Step(call, label) == [call EXCEPT !.trace = Append(@, label)]

(* --------------------------- makeCryptoWith ---------------------------- *)
makeCryptoWith(opts) ==
    LET v == _validateOpts(opts)
    IN  /\ made' = [opts |-> opts,
                    result |-> IF v[1] = "throw" THEN v
                               ELSE Return(<<"codec", opts.encryptionKey>>)]
        /\ codec' = IF v[1] = "throw" THEN codec ELSE opts.encryptionKey
        /\ UNCHANGED calls

(* ------------------------------ encrypt -------------------------------- *)
\* async encrypt(input, aad), up to its await.
Codec_encrypt_body(call) ==
    LET c1 == Step(call, "_validateAAD")
        v == _validateAAD(call.aad)
        c2 == [Step(c1, "_generateSalt") EXCEPT
                  !.salt = _generateSalt(call.rand, c1.used),
                  !.used = c1.used + SALT_LENGTH_IN_BYTES]
        c3 == Step(c2, "_serialize")
        s == _serialize(call.input)
        c4 == [Step(c3, "_generateIV") EXCEPT
                  !.serializedInput = s[2][2],
                  !.iv = _generateIV(call.rand, c3.used),
                  !.used = c3.used + IV_LENGTH_IN_BYTES]
    IN  IF v[1] = "throw" THEN Done(c1, v)
        ELSE IF s[1] = "throw" THEN Done(c3, s)
        ELSE [Step(c4, "_generateKey") EXCEPT !.pc = "await"]

Codec_encrypt(c, input, aad, rand) ==
    /\ Startable(c)
    /\ calls' = [calls EXCEPT ![c] = Codec_encrypt_body(
                    [Idle EXCEPT !.op = "encrypt", !.encryptionKey = codec,
                                 !.input = input, !.aad = aad, !.rand = rand])]
    /\ UNCHANGED <<codec, made>>

\* encryptSync(input, aad)
Codec_encryptSync_body(call) ==
    LET c1 == Step(call, "_validateAAD")
        v == _validateAAD(call.aad)
        c2 == Step(c1, "_serialize")
        s == _serialize(call.input)
        c3 == [Step(c2, "_generateIV") EXCEPT
                  !.serializedInput = s[2][2],
                  !.iv = _generateIV(call.rand, c2.used),
                  !.used = c2.used + IV_LENGTH_IN_BYTES]
        c4 == [Step(c3, "_generateSalt") EXCEPT
                  !.salt = _generateSalt(call.rand, c3.used),
                  !.used = c3.used + SALT_LENGTH_IN_BYTES]
        c5 == [Step(c4, "_generateKeySync") EXCEPT
                  !.key = _generateKeySync(call.encryptionKey, c4.salt)]
    IN  IF v[1] = "throw" THEN Done(c1, v)
        ELSE IF s[1] = "throw" THEN Done(c2, s)
        ELSE Done(Step(c5, "encrypt"),
                  Return(encrypt(c5.serializedInput, c5.iv, c5.key, c5.salt,
                                 c5.aad)))

Codec_encryptSync(c, input, aad, rand) ==
    /\ Startable(c)
    /\ calls' = [calls EXCEPT ![c] = Codec_encryptSync_body(
                    [Idle EXCEPT !.op = "encryptSync", !.encryptionKey = codec,
                                 !.input = input, !.aad = aad, !.rand = rand])]
    /\ UNCHANGED <<codec, made>>

(* ------------------------------ decrypt -------------------------------- *)
\* async decrypt(encryptedOutput, aad), up to its await.
Codec_decrypt_body(call) ==
    LET c1 == Step(call, "_validateAAD")
        v == _validateAAD(call.aad)
        c2 == [Step(c1, "asBuffer") EXCEPT !.outputBytes = asBuffer(call.input)]
        c3 == [c2 EXCEPT !.salt = Slice(c2.outputBytes, 0, SALT_LENGTH_IN_BYTES)]
    IN  IF v[1] = "throw" THEN Done(c1, v)
        ELSE [Step(c3, "_generateKey") EXCEPT !.pc = "await"]

Codec_decrypt(c, encryptedOutput, aad, from) ==
    /\ Startable(c)
    /\ calls' = [calls EXCEPT ![c] = Codec_decrypt_body(
                    [Idle EXCEPT !.op = "decrypt", !.encryptionKey = codec,
                                 !.input = encryptedOutput, !.aad = aad,
                                 !.from = from])]
    /\ UNCHANGED <<codec, made>>

\* The statement that ends decryptSync.
Codec_decryptSync_return(key, outputBytes, aad) == decrypt(key, outputBytes, aad)

\* decryptSync(encryptedOutput, aad)
Codec_decryptSync_body(call) ==
    LET c1 == Step(call, "_validateAAD")
        v == _validateAAD(call.aad)
        c2 == [Step(c1, "asBuffer") EXCEPT !.outputBytes = asBuffer(call.input)]
        c3 == [c2 EXCEPT !.salt = Slice(c2.outputBytes, 0, SALT_LENGTH_IN_BYTES)]
        c4 == [Step(c3, "_generateKeySync") EXCEPT
                  !.key = _generateKeySync(call.encryptionKey, c3.salt)]
    IN  IF v[1] = "throw" THEN Done(c1, v)
        ELSE Done(Step(c4, "decrypt"),
                  Codec_decryptSync_return(c4.key, c4.outputBytes, c4.aad))

Codec_decryptSync(c, encryptedOutput, aad, from) ==
    /\ Startable(c)
    /\ calls' = [calls EXCEPT ![c] = Codec_decryptSync_body(
                    [Idle EXCEPT !.op = "decryptSync", !.encryptionKey = codec,
                                 !.input = encryptedOutput, !.aad = aad,
                                 !.from = from])]
    /\ UNCHANGED <<codec, made>>

(* ---------------------- the pbkdf2 callback ---------------------------- *)
\* The continuation of an awaiting call: (err, key) => ..., then the rest of
\* the async function.
Resume(call, err) ==
    LET k == [call EXCEPT !.key = _generateKey(call.encryptionKey, call.salt)]
    IN  IF err THEN Done(call, Throw("pbkdf2 failed"))
        ELSE IF call.op = "encrypt"
             THEN Done(Step(k, "encrypt"),
                       Return(encrypt(k.serializedInput, k.iv, k.key, k.salt,
                                      k.aad)))
        ELSE Done(Step(k, "decrypt"), decrypt(k.key, k.outputBytes, k.aad))

_generateKey_callback_shared(c, err) ==
    LET others == {o \in CallIds : o # c /\ calls[o].pc = "await"}
        salt == IF others = {} THEN calls[c].salt
                ELSE calls[CHOOSE o \in others : TRUE].salt
    IN  /\ calls[c].pc = "await"
        /\ calls' = [calls EXCEPT
                        ![c] = Resume([calls[c] EXCEPT !.salt = salt], err)]
        /\ UNCHANGED <<codec, made>>

_generateKey_callback(c, err) ==
    /\ calls[c].pc = "await"
    /\ calls' = [calls EXCEPT ![c] = Resume(calls[c], err)]
    /\ UNCHANGED <<codec, made>>

(* ------------------------- the environment ----------------------------- *)
\* Random bytes take the values 0..MaxRandByte; a tampered byte differs from
\* the original by one of the differences 1..MaxDelta.
MaxRandByte == 1
MaxDelta == 1

\* The random source: the bytes crypto.randomBytes will deliver to a call.
Stream(x, y) ==
    Eval([i \in 1..(SALT_LENGTH_IN_BYTES + IV_LENGTH_IN_BYTES) |->
            B(IF i <= IV_LENGTH_IN_BYTES THEN x ELSE y)])
Streams == {Stream(x, y) : x, y \in 0..MaxRandByte}

\* "p", Buffer "q"; no key, "", an empty Buffer
GoodKeys == {Str(<<112>>), Buf(<<B(113)>>)}
BadKeys == {Undefined, Str(<<>>), Buf(<<>>)}
AllKeys == GoodKeys \cup BadKeys

\* undefined, "a"; "b", null; "" and 1
SealAads == {Undefined, Str(<<97>>)}
GoodAads == SealAads \cup {Str(<<98>>), Null}
BadAads == {Str(<<>>), Num(1)}

\* "a\"e'" (with e-acute), 17, [1,true], {"k":[false,null,"b"]}
JsonValues ==
    {Str(<<97, 34, 233>>), Num(17), Arr(<<Num(1), Bool(TRUE)>>),
     Obj(<< <<<<107>>, Arr(<<Bool(FALSE), Null, Str(<<98>>)>>)>> >>)}

\* a function, undefined, a symbol, NaN; the same inside an array or an
\* object; an array and an object that contain themselves
OtherValues ==
    {<<"function">>, Undefined, <<"symbol">>, <<"nan">>,
     Arr(<<<<"function">>, Num(1)>>), Arr(<<Undefined>>),
     Obj(<< <<<<107>>, <<"symbol">>>>, <<<<98>>, Num(2)>> >>),
     Obj(<< <<<<107>>, Undefined>> >>),
     Arr(<<<<"cycle">>>>), Obj(<< <<<<107>>, Arr(<<<<"cycle">>>>)>> >>)}

\* What a third party does to the bytes of an envelope before they are
\* handed to decrypt: nothing, change the byte at offset i - 1 by d, or
\* keep the first n bytes only.
Tamper(bytes, attack) ==
    CASE attack[1] = "none" -> bytes
      [] attack[1] = "flip" ->
            [bytes EXCEPT ![attack[2]] = <<"f", attack[3], @>>]
      [] attack[1] = "trunc" -> SubSeq(bytes, 1, attack[2])

\* The encryptedOutput handed to decrypt: the text encrypt returned, or the
\* bytes it decodes to (form "raw"), or what the attack makes of them.
Handed(envelope, attack, form) ==
    LET bytes == Tamper(Base64Decode(envelope[2]), attack)
    IN  IF form = "raw" THEN Buf(bytes)
        ELSE IF attack[1] = "none" THEN envelope
        ELSE Str(Base64Encode(bytes))

Sealed(e) == calls[e].op \in {"encrypt", "encryptSync"}
             /\ calls[e].pc = "done" /\ calls[e].result[1] = "return"

EnvelopeLen(e) == Len(Base64Decode(calls[e].result[2][2]))

Flips(e, offsets) ==
    {<<"flip", i + 1, d>> : i \in offsets \cap (0..(EnvelopeLen(e) - 1)),
                            d \in 1..MaxDelta}
Truncs(lens) == {<<"trunc", n>> : n \in lens}

\* One offset in each field, and lengths at which a slice changes.
SomeAttacks(e) ==
    {<<"none">>} \cup Flips(e, {0, 64, 76, 92}) \cup Truncs({64, 80, 83, 92})
AllFlips(e) == Flips(e, 0..(EnvelopeLen(e) - 1))

Open(c, e, attack, form, aad, sync) ==
    LET from == <<"from", e, attack, form>>
        encryptedOutput == Handed(calls[e].result[2], attack, form)
    IN  IF sync THEN Codec_decryptSync(c, encryptedOutput, aad, from)
        ELSE Codec_decrypt(c, encryptedOutput, aad, from)

(* ------------------------ the specifications --------------------------- *)
\* Spec: a caller seals a value in call 1 and a caller, with the same codec
\* or another, opens what became of the envelope in call 2. A codec is
\* constructed only while a call remains to be made.
NextMake ==
    /\ calls[2].pc = "idle"
    /\ \E k \in GoodKeys : makeCryptoWith([encryptionKey |-> k])
NextEncrypt ==
    \E v \in JsonValues, a \in SealAads \cup BadAads :
        Codec_encrypt(1, v, a, Stream(0, MaxRandByte))
NextEncryptSync ==
    \E v \in JsonValues, a \in SealAads \cup BadAads :
        Codec_encryptSync(1, v, a, Stream(0, MaxRandByte))
NextOpen ==
    /\ Sealed(1)
    /\ \E attack \in SomeAttacks(1), form \in {"text", "raw"},
          a \in GoodAads \cup BadAads, sync \in BOOLEAN :
            Open(2, 1, attack, form, a, sync)
NextCallback == \E c \in CallIds, err \in BOOLEAN : _generateKey_callback(c, err)

Next == NextMake \/ NextEncrypt \/ NextEncryptSync \/ NextOpen \/ NextCallback

Spec == Init /\ [][Next]_vars

\* SpecSeal: construction with every kind of passphrase, and one encrypt of
\* every kind of value under every random source.
SealMake ==
    /\ calls[1].pc = "idle"
    /\ \E k \in AllKeys : makeCryptoWith([encryptionKey |-> k])
SealEncrypt ==
    \E v \in JsonValues \cup OtherValues, a \in SealAads \cup BadAads,
       r \in Streams : Codec_encrypt(1, v, a, r)
SealEncryptSync ==
    \E v \in JsonValues \cup OtherValues, a \in SealAads \cup BadAads,
       r \in Streams : Codec_encryptSync(1, v, a, r)
SealCallback == \E err \in BOOLEAN : _generateKey_callback(1, err)

NextSeal == SealMake \/ SealEncrypt \/ SealEncryptSync \/ SealCallback

SpecSeal == Init /\ [][NextSeal]_vars

\* SpecTamper: one codec; a third party changes one byte of the envelope,
\* at any offset, before it is opened.
TamperMake ==
    /\ codec = NoVal
    /\ makeCryptoWith([encryptionKey |-> Str(<<112>>)])
TamperEncrypt ==
    \E a \in SealAads : Codec_encrypt(1, Num(17), a, Stream(0, MaxRandByte))
TamperEncryptSync ==
    \E a \in SealAads : Codec_encryptSync(1, Num(17), a, Stream(0, MaxRandByte))
TamperOpen ==
    /\ Sealed(1)
    /\ \E attack \in AllFlips(1), form \in {"text", "raw"},
          a \in SealAads, sync \in BOOLEAN :
            Open(2, 1, attack, form, a, sync)
TamperCallback == \E c \in CallIds : _generateKey_callback(c, FALSE)

NextTamper ==
    TamperMake \/ TamperEncrypt \/ TamperEncryptSync \/ TamperOpen \/ TamperCallback

SpecTamper == Init /\ [][NextTamper]_vars

\* SpecPar: one codec and the calls made on it while others are suspended
\* in their key derivation. The derivations complete in any order. What is
\* opened is an envelope the codec sealed earlier, as it is or with a byte
\* of its nonce changed.
EarlierEnvelope ==
    Codec_encryptSync_body(
        [Idle EXCEPT !.op = "encryptSync", !.encryptionKey = codec,
                     !.input = Str(<<98>>), !.aad = Undefined,
                     !.rand = Stream(MaxRandByte, 0)]).result[2]

ParMake ==
    /\ codec = NoVal
    /\ makeCryptoWith([encryptionKey |-> Str(<<112>>)])
ParEncrypt ==
    \E c \in CallIds, a \in SealAads, r \in Streams :
        Codec_encrypt(c, Num(17), a, r)
ParEncryptSync ==
    \E c \in CallIds, a \in SealAads, r \in Streams :
        Codec_encryptSync(c, Num(17), a, r)
ParDecrypt ==
    /\ codec # NoVal
    /\ \E c \in CallIds, a \in SealAads, form \in {"text", "raw"},
          attack \in {<<"none">>} \cup {<<"flip", 65, d>> : d \in 1..MaxDelta} :
            Codec_decrypt(c, Handed(EarlierEnvelope, attack, form), a,
                          <<"from", 0, attack, form>>)
ParDecryptSync ==
    /\ codec # NoVal
    /\ \E c \in CallIds, a \in SealAads, form \in {"text", "raw"},
          attack \in {<<"none">>} \cup {<<"flip", 65, d>> : d \in 1..MaxDelta} :
            Codec_decryptSync(c, Handed(EarlierEnvelope, attack, form), a,
                              <<"from", 0, attack, form>>)
ParCallback == \E c \in CallIds, err \in BOOLEAN : _generateKey_callback(c, err)

NextPar ==
    \/ ParMake \/ ParEncrypt \/ ParEncryptSync
    \/ ParDecrypt \/ ParDecryptSync \/ ParCallback

SpecPar == Init /\ [][NextPar]_vars

(* ----------------------------- the claims ----------------------------- *)
AuthError == Throw("Unsupported state or unable to authenticate data")
KdfError == Throw("pbkdf2 failed")

IsDecrypt(c) == calls[c].op \in {"decrypt", "decryptSync"}
IsEncrypt(c) == calls[c].op \in {"encrypt", "encryptSync"}
Finished(c) == calls[c].pc = "done"

\* The encrypt call whose envelope decrypt call d was handed, and what was
\* done to the envelope on the way.
Source(d) == calls[calls[d].from[2]]
Attack(d) == calls[d].from[3]
Form(d) == calls[d].from[4]

\* Two AADs that bind the same: both absent, or the same string.
SameAad(a1, a2) == IF IsNullish(a1) \/ IsNullish(a2)
                   THEN IsNullish(a1) /\ IsNullish(a2) ELSE a1 = a2
ValidAad(a) == _validateAAD(a)[1] = "return"

\* Decrypt call d has run to its end with a well-formed AAD and without a
\* fault of the key derivation.
Opened(d) ==
    /\ IsDecrypt(d) /\ Finished(d)
    /\ ValidAad(calls[d].aad)
    /\ calls[d].result # KdfError

SamePassphrase(d) ==
    PasswordBytes(calls[d].encryptionKey) = PasswordBytes(Source(d).encryptionKey)

\* C1: Round trip. A decrypt or decryptSync that is handed the envelope an
\* encrypt or encryptSync returned for value v - as the base64 text or as the
\* bytes it decodes to - under the same passphrase and the same AAD (absent
\* or a non-empty string) returns a value equal to v, whenever the key
\* derivation reports no error.
C1_RoundTrip ==
    \A d \in CallIds :
        (Opened(d) /\ Attack(d)[1] = "none" /\ SamePassphrase(d)
            /\ SameAad(calls[d].aad, Source(d).aad))
        => calls[d].result = Return(Source(d).input)

\* An envelope sealed by encrypt with AAD "a" is opened by decryptSync from
\* its raw bytes and gives back the object that was sealed.
C1_Witness ==
    /\ Opened(2) /\ calls[2].op = "decryptSync" /\ Source(2).op = "encrypt"
    /\ Form(2) = "raw" /\ Attack(2)[1] = "none"
    /\ calls[2].aad = Str(<<97>>) /\ Source(2).aad = Str(<<97>>)
    /\ Source(2).input[1] = "object"
    /\ calls[2].result = Return(Source(2).input)

\* The bytes of the envelope encrypt call e returned.
EnvelopeBytes(e) == Base64Decode(calls[e].result[2][2])

\* C2: AAD binding. Opening an untampered envelope under the same passphrase
\* fails with the authentication error when the AAD differs from the one it
\* was sealed with (also when exactly one of the two is absent) and returns
\* the sealed value when it is the same. The envelope does not hold the AAD:
\* it is salt, nonce, tag and ciphertext, and only the tag depends on the AAD.
C2_AadBinding ==
    /\ \A d \in CallIds :
        (Opened(d) /\ Attack(d)[1] = "none" /\ SamePassphrase(d))
        => calls[d].result =
              IF SameAad(calls[d].aad, Source(d).aad)
              THEN Return(Source(d).input) ELSE AuthError
    /\ \A e \in CallIds :
        Sealed(e) =>
            LET key == _generateKey(calls[e].encryptionKey, calls[e].salt)
                ct == CtrCrypt(key, calls[e].iv,
                               Utf8Encode(calls[e].serializedInput))
            IN  /\ Slice(EnvelopeBytes(e), 0, 76) = calls[e].salt \o calls[e].iv
                /\ Slice(EnvelopeBytes(e), 92, EnvelopeLen(e)) = ct
                /\ EnvelopeLen(e) = 92 + Len(ct)

\* An envelope sealed with AAD "a" fails to open with AAD "b".
C2_Witness ==
    /\ Opened(2) /\ Attack(2)[1] = "none" /\ SamePassphrase(2)
    /\ Source(2).aad = Str(<<97>>) /\ calls[2].aad = Str(<<98>>)
    /\ calls[2].result = AuthError

\* C3: Tamper detection. When one byte of an envelope is changed - at any
\* offset: salt [0,64), nonce [64,76), tag [76,92) or ciphertext [92,end) -
\* decrypt and decryptSync fail with the authentication error.
C3_TamperDetected ==
    \A d \in CallIds :
        (Opened(d) /\ Attack(d)[1] = "flip") => calls[d].result = AuthError

\* A byte of the salt was changed and decrypt, given the right passphrase
\* and AAD, failed with the authentication error.
C3_Witness ==
    /\ Opened(2) /\ Attack(2)[1] = "flip" /\ Attack(2)[2] <= 64
    /\ SamePassphrase(2) /\ SameAad(calls[2].aad, Source(2).aad)
    /\ calls[2].result = AuthError

\* What a call has done besides validating its AAD: nothing.
OnlyValidated(call) ==
    /\ call.trace = <<"_validateAAD">>
    /\ call.used = 0 /\ call.salt = <<>> /\ call.iv = <<>>
    /\ call.serializedInput = <<>> /\ call.outputBytes = <<>>
    /\ call.key = NoVal

\* C6: AAD shape validation runs first in all four operations. A null or
\* undefined AAD is accepted and binds nothing (the tag is the tag of the
\* empty AAD); an AAD that is no string fails with 'AAD must be a string'
\* and an empty string with 'AAD cannot be an empty string', and the call
\* has then serialized nothing, decoded nothing, drawn no random byte,
\* derived no key and run no cipher.
C6_AadValidatedFirst ==
    \A c \in CallIds :
        Finished(c) =>
            /\ Head(calls[c].trace) = "_validateAAD"
            /\ IsNullish(calls[c].aad) =>
                  /\ calls[c].result[1] = "throw" => calls[c].result[2] \notin
                        {"AAD must be a string", "AAD cannot be an empty string"}
                  /\ Sealed(c) =>
                        Slice(EnvelopeBytes(c), 76, 92)
                          = GcmTag(calls[c].key, calls[c].iv, <<>>,
                                   Slice(EnvelopeBytes(c), 92, EnvelopeLen(c)))
            /\ (~IsNullish(calls[c].aad) /\ calls[c].aad[1] # "string") =>
                  /\ calls[c].result = Throw("AAD must be a string")
                  /\ OnlyValidated(calls[c])
            /\ calls[c].aad = Str(<<>>) =>
                  /\ calls[c].result = Throw("AAD cannot be an empty string")
                  /\ OnlyValidated(calls[c])

\* decryptSync was called with the empty string as AAD and failed at once.
C6_Witness ==
    /\ Finished(2) /\ calls[2].op = "decryptSync" /\ calls[2].aad = Str(<<>>)
    /\ calls[2].result = Throw("AAD cannot be an empty string")
    /\ OnlyValidated(calls[2])

\* The messages of the errors a decrypt can fail with.
DecryptErrors ==
    {"AAD must be a string", "AAD cannot be an empty string", "pbkdf2 failed",
     "Invalid initialization vector", "Invalid authentication tag length",
     "Unsupported state or unable to authenticate data",
     "Unexpected token in JSON"}

\* C9: No unauthenticated plaintext. decrypt and decryptSync return a value
\* only when the tag in the envelope is the tag of the supplied ciphertext,
\* AAD and nonce under the derived key, and the value is then the plaintext;
\* on every other path the caller gets an error, which carries none of the
\* decrypted bytes.
C9_NoUnauthenticatedPlaintext ==
    \A d \in CallIds :
        (IsDecrypt(d) /\ Finished(d)) =>
            LET bytes == asBuffer(calls[d].input)
                key == _generateKey(calls[d].encryptionKey, Slice(bytes, 0, 64))
                iv == Slice(bytes, 64, 76)
                tag == Slice(bytes, 76, 92)
                text == Slice(bytes, 92, Len(bytes))
            IN  IF calls[d].result[1] = "return"
                THEN /\ tag = GcmTag(key, iv, AadBytes(calls[d].aad), text)
                     /\ calls[d].result
                          = JSON_parse(Utf8Decode(CtrCrypt(key, iv, text)))
                ELSE /\ calls[d].result[1] = "throw"
                     /\ calls[d].result[2] \in DecryptErrors

\* A decrypt that was handed a cut-off envelope got the authentication
\* error and no value.
C9_Witness ==
    /\ IsDecrypt(2) /\ Finished(2) /\ Attack(2)[1] = "trunc"
    /\ calls[2].result = AuthError

\* C4: Construction validation. makeCryptoWith fails and returns no codec
\* whenever the passphrase is missing or empty - the empty string and the
\* zero-length byte sequence alike - and returns a codec for every
\* non-empty passphrase.
C4_ConstructionValidated ==
    made.result # NoVal =>
        LET k == made.opts.encryptionKey
        IN  IF IsNullish(k) \/ Len(PasswordBytes(k)) = 0
            THEN made.result[1] = "throw"
            ELSE made.result = Return(<<"codec", k>>)

\* The steps of a seal that cost entropy or cryptographic work.
CostlySteps ==
    {"_generateSalt", "_generateIV", "_generateKey", "_generateKeySync",
     "encrypt"}

SerializationErrors ==
    {Throw("Object to be encrypted must be serializable"),
     Throw("Converting circular structure to JSON")}

\* C5: Serialization is checked before any entropy or cryptographic cost.
\* When encrypt or encryptSync fails because the value cannot be serialized,
\* the call has drawn no salt and no nonce, derived no key and run no cipher.
C5_SerializationBeforeCost ==
    \A c \in CallIds :
        (IsEncrypt(c) /\ Finished(c)
            /\ calls[c].result \in SerializationErrors)
        => /\ calls[c].used = 0
           /\ calls[c].salt = <<>> /\ calls[c].iv = <<>>
           /\ calls[c].key = NoVal
           /\ \A i \in DOMAIN calls[c].trace :
                  calls[c].trace[i] \notin CostlySteps

\* Whether value v is, or holds at any depth, a function, a symbol, an
\* undefined or a reference back into itself.
RECURSIVE ContainsNonSerializable(_)
ContainsNonSerializable(v) ==
    CASE v[1] \in {"function", "symbol", "undefined", "cycle"} -> TRUE
      [] v[1] = "array" ->
            \E i \in DOMAIN v[2] : ContainsNonSerializable(v[2][i])
      [] v[1] = "object" ->
            \E i \in DOMAIN v[2] : ContainsNonSerializable(v[2][i][2])
      [] OTHER -> FALSE

\* C7: The serializer rejects every value that contains a non-serializable
\* member. encrypt and encryptSync of a value that is or holds, at top level
\* or nested in an array or a mapping, a function, a symbol, an undefined or
\* a circular reference fail with 'Object to be encrypted must be
\* serializable' and produce no envelope.
C7_SerializerRejects ==
    \A c \in CallIds :
        (IsEncrypt(c) /\ Finished(c) /\ ValidAad(calls[c].aad)
            /\ ContainsNonSerializable(calls[c].input))
        => calls[c].result = Throw("Object to be encrypted must be serializable")

\* What the other form of the operation of call c - the blocking one for a
\* non-blocking call and the other way round - makes of the same passphrase,
\* input, AAD and stream of random bytes.
OtherForm(c) ==
    LET start(op) == [Idle EXCEPT !.op = op,
                                  !.encryptionKey = calls[c].encryptionKey,
                                  !.input = calls[c].input,
                                  !.aad = calls[c].aad,
                                  !.rand = calls[c].rand]
        resumed(call) == IF call.pc = "await" THEN Resume(call, FALSE) ELSE call
    IN  CASE calls[c].op = "encrypt" ->
                Codec_encryptSync_body(start("encryptSync"))
          [] calls[c].op = "encryptSync" ->
                resumed(Codec_encrypt_body(start("encrypt")))
          [] calls[c].op = "decrypt" ->
                Codec_decryptSync_body(start("decryptSync"))
          [] calls[c].op = "decryptSync" ->
                resumed(Codec_decrypt_body(start("decrypt")))

\* C8: Synchronous and asynchronous equivalence. Given the same passphrase,
\* value, AAD and stream of random bytes, encrypt and encryptSync return the
\* same envelope or raise the same error, and so do decrypt and decryptSync
\* on the same input; both derivations give the same key.
C8_SyncAsyncEquivalent ==
    \A c \in CallIds :
        (Finished(c) /\ calls[c].result # KdfError)
        => /\ OtherForm(c).result = calls[c].result
           /\ OtherForm(c).key = calls[c].key

\* C10: Single failure mode on open. Every decrypt or decryptSync of an
\* input that is not the envelope sealed under this passphrase and AAD - a
\* byte changed, bytes missing, another passphrase, another AAD - fails with
\* the one authentication error.
C10_SingleFailureMode ==
    \A d \in CallIds :
        (Opened(d)
            /\ (\/ Attack(d)[1] # "none"
                \/ ~SamePassphrase(d)
                \/ ~SameAad(calls[d].aad, Source(d).aad)))
        => calls[d].result = AuthError

\* C11: Envelope layout. Every envelope encrypt or encryptSync returns
\* decodes from base64 to salt (64 bytes), nonce (12), tag (16), ciphertext,
\* the salt and nonce being the ones that call generated, and is
\* 64 + 12 + 16 + N bytes long, N the number of bytes of the serialized
\* plaintext in UTF-8. decrypt and decryptSync read the salt at [0,64), the
\* nonce at [64,76), the tag at [76,92) and the ciphertext at [92,end): handed
\* the envelope as it is, they derive their key from the salt the encrypt
\* call generated and verify and decrypt with its nonce, tag and ciphertext.
C11_EnvelopeLayout ==
    /\ \A e \in CallIds :
        Sealed(e) =>
            LET bytes == EnvelopeBytes(e)
                plain == Utf8Encode(calls[e].serializedInput)
                ct == CtrCrypt(calls[e].key, calls[e].iv, plain)
            IN  /\ Len(calls[e].salt) = 64 /\ Len(calls[e].iv) = 12
                /\ calls[e].used = 76
                /\ Len(bytes) = 64 + 12 + 16 + Len(plain)
                /\ SubSeq(bytes, 1, 64) = calls[e].salt
                /\ SubSeq(bytes, 65, 76) = calls[e].iv
                /\ SubSeq(bytes, 77, 92)
                      = GcmTag(calls[e].key, calls[e].iv,
                               AadBytes(calls[e].aad), ct)
                /\ SubSeq(bytes, 93, Len(bytes)) = ct
    /\ \A d \in CallIds :
        (Opened(d) /\ Attack(d)[1] = "none") =>
            LET src == Source(d)
                key == _generateKey(calls[d].encryptionKey, src.salt)
                ct == CtrCrypt(src.key, src.iv, Utf8Encode(src.serializedInput))
                tag == GcmTag(src.key, src.iv, AadBytes(src.aad), ct)
            IN  /\ calls[d].salt = src.salt
                /\ calls[d].key = key
                /\ calls[d].result =
                      IF tag = GcmTag(key, src.iv, AadBytes(calls[d].aad), ct)
                      THEN JSON_parse(Utf8Decode(CtrCrypt(key, src.iv, ct)))
                      ELSE AuthError

\* encrypt sealed the string a"e' (e-acute: six characters with its quotes
\* and escape, seven bytes) in an envelope of 99 bytes, and decrypt, handed
\* that envelope as text, read it back.
C11_Witness ==
    /\ Sealed(1) /\ calls[1].op = "encrypt"
    /\ calls[1].input = Str(<<97, 34, 233>>)
    /\ Len(calls[1].serializedInput) = 6
    /\ EnvelopeLen(1) = 99
    /\ Opened(2) /\ calls[2].op = "decrypt" /\ Attack(2)[1] = "none"
    /\ Form(2) = "text"
    /\ calls[2].result = Return(calls[1].input)

\* Call c run with nothing else in flight: the same operation on the codec's
\* passphrase with the same arguments and random bytes, its key derivation
\* completing without error.
Alone(c) ==
    LET start == [Idle EXCEPT !.op = calls[c].op, !.encryptionKey = codec,
                              !.input = calls[c].input, !.aad = calls[c].aad,
                              !.rand = calls[c].rand, !.from = calls[c].from]
        resumed(call) == IF call.pc = "await" THEN Resume(call, FALSE) ELSE call
    IN  CASE calls[c].op = "encrypt" -> resumed(Codec_encrypt_body(start))
          [] calls[c].op = "encryptSync" -> Codec_encryptSync_body(start)
          [] calls[c].op = "decrypt" -> resumed(Codec_decrypt_body(start))
          [] calls[c].op = "decryptSync" -> Codec_decryptSync_body(start)

Count(trace, label) == Cardinality({i \in DOMAIN trace : trace[i] = label})

\* C12: Call independence under interleaving. With calls in flight on one
\* codec and their key derivations suspended and completed in any order,
\* every encrypt that gets to its key derivation has drawn one salt and one
\* nonce of its own from the random source, seals with the key derived from
\* the codec's passphrase and its own salt and packs its own salt and nonce
\* into its envelope; every finished call has the outcome it has when run
\* alone (or the error its own key derivation reported); and the codec's
\* passphrase stays the one it was constructed with.
C12_CallIndependence ==
    /\ codec # NoVal => codec = made.opts.encryptionKey
    /\ \A c \in CallIds :
        /\ calls[c].pc # "idle" => calls[c].encryptionKey = codec
        /\ (IsEncrypt(c) /\ (calls[c].pc = "await" \/ Sealed(c))) =>
              /\ Count(calls[c].trace, "_generateSalt") = 1
              /\ Count(calls[c].trace, "_generateIV") = 1
              /\ calls[c].used = 76
              /\ calls[c].rand \in {calls[c].salt \o calls[c].iv,
                                    calls[c].iv \o calls[c].salt}
              /\ calls[c].salt = Alone(c).salt
              /\ calls[c].iv = Alone(c).iv
        /\ Sealed(c) =>
              /\ calls[c].key = _generateKey(codec, Alone(c).salt)
              /\ SubSeq(EnvelopeBytes(c), 1, 76) = Alone(c).salt \o Alone(c).iv
        /\ Finished(c) =>
              \/ calls[c].result = Alone(c).result
              \/ /\ calls[c].op \in {"encrypt", "decrypt"}
                 /\ calls[c].result = KdfError

\* Two encrypt calls with different random bytes were in flight together;
\* the first has returned its envelope, with its own salt and nonce in it,
\* while the second is still suspended in its key derivation.
C12_Witness ==
    /\ calls[1].op = "encrypt" /\ Sealed(1)
    /\ calls[2].op = "encrypt" /\ calls[2].pc = "await"
    /\ calls[1].salt # calls[2].salt
    /\ SubSeq(EnvelopeBytes(1), 1, 64) = calls[1].salt

========================================================================
